---- MODULE Spec2Model ----
(***************************************************************************)
(* Job lifecycle orchestrator of the face-swap backend: idempotent intake, *)
(* the in-process dispatch queue and its single worker, the webhook        *)
(* callback handler and the reconciliation poller                          *)
(* (backend/app/services/job_service.py, providers/queue/inprocess.py,     *)
(* api/routes_jobs.py, api/routes_runpod.py).                              *)
(*                                                                         *)
(* One TLA+ step is one run of a coroutine between two suspension points   *)
(* of the asyncio event loop: code with no pending await in it is atomic.  *)
(* The three awaits that really suspend are compute.submit_job,            *)
(* compute.get_job_status and _download_to_bytes.                          *)
(*                                                                         *)
(* Of a Job row the model keeps the columns the orchestrator reads or the  *)
(* API reports; mode, quality, enable_4k and aspect_ratio enter through    *)
(* config_hash, and updated_at (stamped on every UPDATE, read by nothing)  *)
(* is left out.                                                            *)
(***************************************************************************)
EXTENDS Integers, Sequences, FiniteSets, TLC

\* ---------------------------------------------------------------- bounds
MaxJobs == 1      \* Job rows in the lifecycle specification (Spec)
MaxRows == 2      \* Job rows in the intake specification (SpecIntake)
MaxTime == 2      \* clock readings 1..MaxTime (datetime.utcnow)
MaxQueue == 2     \* entries the unbounded asyncio.Queue holds in the model
MaxTasks == 3     \* worker tasks start() creates in the provider specification
MaxStops == 2     \* stop() calls suspended at a time
MaxExp == 2       \* expiry instants 0..MaxExp of a signed token, in seconds
TicksPerSecond == 2   \* readings of time.time() within one second

\* ------------------------------------------------------ program constants
max_upload_mb == 500
MaxUploadBytes == max_upload_mb * 1024 * 1024

allowed_video_ext == {".mp4", ".mov", ".mkv", ".webm"}
allowed_image_ext == {".jpg", ".jpeg", ".png", ".webp"}

\* ------------------------------------------------------------ null values
None == "None"         \* a NULL text column
NoTime == 0            \* a NULL DateTime column
NoHandle == 0          \* runpod_job_id IS NULL
NoTask == 0            \* InProcessQueueProvider._task is None
NoRef == <<>>          \* output_path IS NULL
NoRow == [status |-> "none"]   \* no row at hand

JobIds == 1..MaxJobs
RowIds == 1..MaxRows
AllIds == JobIds \cup RowIds
Times == 1..MaxTime

LiveStatuses == {"queued", "processing", "done"}

\* ------------------------------------------------------------- intake input
\* An upload: the client's file name (stem and suffix), the bytes (named by
\* their SHA-256 digest) and their length.
Upload(stem, suffix, digest, size) ==
    [stem |-> stem, suffix |-> suffix, sha256 |-> digest, size |-> size]

ImageUploads == { Upload("s", ".jpg", "i1", 2048) }

RequestsWith(videos) ==
    [ mode : {"video_swap"}, quality : {"balanced"}, enable_4k : {FALSE},
      aspect_ratio : {"9:16"},
      reference_video : videos, source_image : ImageUploads ]

\* Submissions of the lifecycle specification: one valid request, one with a
\* suffix that is not a video's, one above the size ceiling.
Requests ==
    RequestsWith({ Upload("a", ".mp4", "v1", 1024), Upload("a", ".txt", "v1", 1024),
                   Upload("a", ".mp4", "v3", MaxUploadBytes + 1) })

\* Submissions of the intake specification: the same bytes under two file names.
IntakeRequests ==
    RequestsWith({ Upload("a", ".mp4", "v1", 1024), Upload("b", ".mov", "v1", 1024) })

\* The submission of the liveness specification.
LiveRequests == RequestsWith({ Upload("a", ".mp4", "v1", 1024) })

\* Submissions of the worker specification: two different videos.
WorkerRequests ==
    RequestsWith({ Upload("a", ".mp4", "v1", 1024), Upload("a", ".mp4", "v2", 1024) })

\* str.lower() on the suffixes that are submitted here.
lower(suffix) ==
    CASE suffix = ".MP4" -> ".mp4"
      [] suffix = ".JPG" -> ".jpg"
      [] OTHER -> suffix

\* services/media_validation.py: the lower-cased suffix must be allowed for the
\* kind.
validate_extension(upload, kind) ==
    lower(upload.suffix) \in (IF kind = "video" THEN allowed_video_ext ELSE allowed_image_ext)

\* JobService._validate_size
validate_size(upload) == ~(upload.size > MaxUploadBytes)

\* JobService._sha256_bytes: the digest of the bytes, whatever the file name.
sha256_bytes(upload) == upload.sha256

RECURSIVE JoinParts(_)
\* stable_config_hash feeds part, "|", part, "|", ... to the digest.
JoinParts(parts) ==
    IF parts = <<>> THEN "" ELSE Head(parts) \o "|" \o JoinParts(Tail(parts))

\* Variant of the fingerprint that leaves the last part out.
hash_without_last_part(parts) ==
    "sha256:" \o JoinParts(SubSeq(parts, 1, Len(parts) - 1))

\* utils/hash_utils.py: SHA-256 of the joined parts (collision-free: the digest
\* is modelled by the string it was computed over).
stable_config_hash(parts) == "sha256:" \o JoinParts(parts)

\* create_job lines 70-80: the parts fed to the fingerprint.
ConfigHash(req) ==
    stable_config_hash(<< req.mode, req.quality,
                          IF req.enable_4k THEN "True" ELSE "False",
                          req.aspect_ratio,
                          sha256_bytes(req.reference_video),
                          sha256_bytes(req.source_image), "" >>)

VARIABLES
    jobs,       \* the jobs table: job id -> row
    queue,      \* InProcessQueueProvider.queue
    now,        \* the clock
    wpc,        \* where the worker task is suspended
    wjob,       \* the job the worker is dispatching or reconciling
    pollJobs,   \* rows selected by the running sweep and not yet reconciled
    held,       \* the row being reconciled, as the sweep's session loaded it
    provider,   \* InProcessQueueProvider._task and ._stopping
    tasks,      \* the worker tasks start() created: where each one is in _worker
    stops,      \* the stop() calls suspended in await self._task: the task awaited
    cbWait,     \* jobs with a callback request suspended in _download_to_bytes
    remote,     \* the compute backend's view of each job's latest submission
    last        \* the request served by the latest step and its response

vars == <<jobs, queue, now, wpc, wjob, pollJobs, held, provider, tasks, stops,
          cbWait, remote, last>>

\* The queue provider's task bookkeeping.
providerVars == <<provider, tasks, stops>>

\* ------------------------------------------------------------ job store
Ids == DOMAIN jobs

\* db.add(job); db.commit() of a new row
Insert(id, row) == [i \in Ids \cup {id} |-> IF i = id THEN row ELSE jobs[i]]

\* db.add(job); db.commit() of a changed row
Update(id, row) == [jobs EXCEPT ![id] = row]

\* db.add(job); db.commit() of a row the session loaded earlier: the UPDATE
\* carries the columns whose value was changed from the loaded one, and the
\* other columns stay as they are in the table.
Flush(row, loaded, assigned) ==
    [f \in DOMAIN row |-> IF assigned[f] # loaded[f] THEN assigned[f] ELSE row[f]]

\* The storage references storage.persist_upload / persist_output return.
UploadRef(id, upload) == <<"uploads", id, upload.stem \o upload.suffix>>
OutputRef(id) == <<"outputs", id, "result.mp4">>

NoCall == [op |-> "none"]

Response(op, id, code, wrote) == [op |-> op, job |-> id, code |-> code, wrote |-> wrote]

\* ---------------------------------------------------------------- intake
\* JobService.list_existing_by_hash: ORDER BY created_at DESC, id DESC LIMIT 1
\* over the rows with that config_hash (0 when there is none).
list_existing_by_hash(config_hash) ==
    LET rows == { i \in Ids : jobs[i].config_hash = config_hash }
    IN  IF rows = {} THEN 0
        ELSE CHOOSE i \in rows : \A k \in rows :
                \/ jobs[i].created_at > jobs[k].created_at
                \/ jobs[i].created_at = jobs[k].created_at /\ i >= k

\* create_job lines 82-84: the row the submission resolves to, 0 when create_job
\* goes on to create one.
ExistingJob(config_hash) ==
    LET existing == list_existing_by_hash(config_hash)
    IN  IF existing # 0 /\ jobs[existing].status \in LiveStatuses THEN existing ELSE 0

\* The row create_job builds (lines 92-112).
NewJob(req, id) ==
    [ config_hash |-> ConfigHash(req),
      status |-> "queued",
      stage |-> "queued",
      stage_timings |-> [s \in {"queued"} |-> [start |-> now, end |-> now]],
      reference_video_path |-> UploadRef(id, req.reference_video),
      source_image_path |-> UploadRef(id, req.source_image),
      output_path |-> NoRef,
      runpod_job_id |-> NoHandle,
      request_id |-> NoHandle,
      error_message |-> None,
      created_at |-> now,
      started_at |-> NoTime,
      finished_at |-> NoTime ]

\* POST /jobs: JobService.create_job and the enqueue of routes_jobs.create_job.
\* id is the uuid4 drawn at line 58.
CreateJob(req, id) ==
    /\ LET valid == /\ validate_extension(req.reference_video, "video")
                    /\ validate_extension(req.source_image, "image")
                    /\ validate_size(req.reference_video)
                    /\ validate_size(req.source_image)
           existing == ExistingJob(ConfigHash(req))
       IN  IF ~valid
           THEN /\ last' = Response("create", 0, 400, {})
                /\ UNCHANGED <<jobs, queue>>
           ELSE IF existing # 0
           THEN \* return existing; the route enqueues it again when it is queued
                /\ jobs[existing].status = "queued" => Len(queue) < MaxQueue
                /\ queue' = IF jobs[existing].status = "queued"
                            THEN Append(queue, existing) ELSE queue
                /\ last' = Response("create", existing, 202, {})
                /\ UNCHANGED jobs
           ELSE /\ id \notin Ids
                /\ Len(queue) < MaxQueue
                /\ jobs' = Insert(id, NewJob(req, id))
                /\ queue' = Append(queue, id)
                /\ last' = Response("create", id, 202, {"upload"})
    /\ UNCHANGED <<now, wpc, wjob, pollJobs, held, providerVars, cbWait, remote>>

\* Variant of the retry that re-arms a job whatever its status.
RetryJobAnyStatus(id) ==
    /\ IF id \notin Ids
       THEN /\ last' = Response("retry", id, 404, {})
            /\ UNCHANGED <<jobs, queue>>
       ELSE /\ Len(queue) < MaxQueue
            /\ jobs' = Update(id, [jobs[id] EXCEPT !.status = "retry",
                                                   !.stage = "queued",
                                                   !.error_message = None])
            /\ queue' = Append(queue, id)
            /\ last' = Response("retry", id, 200, {})
    /\ UNCHANGED <<now, wpc, wjob, pollJobs, held, providerVars, cbWait, remote>>

\* Variant of the retry that re-arms the job and enqueues nothing.
RetryJobNoEnqueue(id) ==
    /\ IF id \notin Ids
       THEN /\ last' = Response("retry", id, 404, {})
            /\ UNCHANGED <<jobs, queue>>
       ELSE IF jobs[id].status # "failed"
       THEN /\ last' = Response("retry", id, 400, {})
            /\ UNCHANGED <<jobs, queue>>
       ELSE /\ jobs' = Update(id, [jobs[id] EXCEPT !.status = "retry",
                                                   !.stage = "queued",
                                                   !.error_message = None])
            /\ queue' = queue
            /\ last' = Response("retry", id, 200, {})
    /\ UNCHANGED <<now, wpc, wjob, pollJobs, held, providerVars, cbWait, remote>>

\* POST /jobs/{job_id}/retry (routes_jobs.retry_job)
RetryJob(id) ==
    /\ IF id \notin Ids
       THEN /\ last' = Response("retry", id, 404, {})
            /\ UNCHANGED <<jobs, queue>>
       ELSE IF jobs[id].status # "failed"
       THEN /\ last' = Response("retry", id, 400, {})
            /\ UNCHANGED <<jobs, queue>>
       ELSE /\ Len(queue) < MaxQueue
            /\ jobs' = Update(id, [jobs[id] EXCEPT !.status = "retry",
                                                   !.stage = "queued",
                                                   !.error_message = None])
            /\ queue' = Append(queue, id)
            /\ last' = Response("retry", id, 200, {})
    /\ UNCHANGED <<now, wpc, wjob, pollJobs, held, providerVars, cbWait, remote>>

\* ------------------------------------------------------- stage bookkeeping
\* JobService._start_stage: the stage's start is kept when it has one, its end
\* is stamped, started_at is set once.
start_stage(job, stage, status) ==
    LET timings == job.stage_timings
        start == IF stage \in DOMAIN timings THEN timings[stage].start ELSE now
    IN  [job EXCEPT
            !.stage_timings = [s \in DOMAIN timings \cup {stage} |->
                                 IF s = stage THEN [start |-> start, end |-> now]
                                 ELSE timings[s]],
            !.stage = stage,
            !.status = status,
            !.started_at = IF job.started_at = NoTime THEN now ELSE job.started_at]

\* ------------------------------------------------------ dispatch (worker)
\* The handle RunpodComputeProvider.submit_job reads from the response ("id").
HandleOf(id) == id

\* Variant of the dispatch that submits whatever entry it drains, without the
\* status test of dispatch_to_compute lines 136-137.
DispatchBeginUnguarded ==
    /\ wpc = "idle"
    /\ queue # <<>>
    /\ LET id == Head(queue)
       IN  /\ queue' = Tail(queue)
           /\ IF id \notin Ids
              THEN UNCHANGED <<jobs, wpc, wjob>>
              ELSE /\ jobs' = Update(id,
                        start_stage(start_stage(jobs[id], "preprocessing", "processing"),
                                    "generating", "processing"))
                   /\ wpc' = "submit"
                   /\ wjob' = id
    /\ last' = NoCall
    /\ UNCHANGED <<now, pollJobs, held, providerVars, cbWait, remote>>

\* _worker lines 38-51 with dispatch_to_compute up to the await of submit_job:
\* an entry is drained, the row is read again and skipped unless it is queued
\* or retry; otherwise it goes through preprocessing into generating.
DispatchBegin ==
    /\ wpc = "idle"
    /\ queue # <<>>
    /\ LET id == Head(queue)
       IN  /\ queue' = Tail(queue)
           /\ IF id \notin Ids \/ jobs[id].status \notin {"queued", "retry"}
              THEN UNCHANGED <<jobs, wpc, wjob>>
              ELSE /\ jobs' = Update(id,
                        start_stage(start_stage(jobs[id], "preprocessing", "processing"),
                                    "generating", "processing"))
                   /\ wpc' = "submit"
                   /\ wjob' = id
    /\ last' = NoCall
    /\ UNCHANGED <<now, pollJobs, held, providerVars, cbWait, remote>>

\* The backend receives the submission while submit_job is awaiting the reply.
RemoteAccept ==
    /\ wpc = "submit"
    /\ wpc' = "submitted"
    /\ remote' = [remote EXCEPT ![wjob] = "RUNNING"]
    /\ last' = NoCall
    /\ UNCHANGED <<jobs, queue, now, wjob, pollJobs, held, providerVars, cbWait>>

\* Variant of the return that does not record the handle.
SubmitReturnDropsHandle(handle) ==
    /\ wpc = "submitted"
    /\ handle \in {NoHandle, HandleOf(wjob)}
    /\ jobs' = jobs
    /\ wpc' = "idle"
    /\ wjob' = 0
    /\ last' = NoCall
    /\ UNCHANGED <<queue, now, pollJobs, held, providerVars, cbWait, remote>>

\* submit_job returns (runpod_job_id, request_id): dispatch_to_compute lines
\* 168-171. The reply may carry no "id".
SubmitReturn(handle) ==
    /\ wpc = "submitted"
    /\ handle \in {NoHandle, HandleOf(wjob)}
    /\ jobs' = Update(wjob, [jobs[wjob] EXCEPT !.runpod_job_id = handle,
                                               !.request_id = handle])
    /\ wpc' = "idle"
    /\ wjob' = 0
    /\ last' = NoCall
    /\ UNCHANGED <<queue, now, pollJobs, held, providerVars, cbWait, remote>>

\* What str(exc) can be when the Gateway raises.
SubmitErrors == {"submit failed"}

\* Variant of the except branch after which the worker task is gone.
SubmitRaiseStopsWorker(msg) ==
    /\ wpc \in {"submit", "submitted"}
    /\ jobs' = Update(wjob, [jobs[wjob] EXCEPT !.status = "failed",
                                               !.stage = "failed",
                                               !.error_message = msg])
    /\ wpc' = "stopped"
    /\ wjob' = 0
    /\ last' = NoCall
    /\ UNCHANGED <<queue, now, pollJobs, held, providerVars, cbWait, remote>>

\* submit_job raises (before or after the backend took the submission): the
\* except branch of _worker, lines 52-60.
SubmitRaise(msg) ==
    /\ wpc \in {"submit", "submitted"}
    /\ jobs' = Update(wjob, [jobs[wjob] EXCEPT !.status = "failed",
                                               !.stage = "failed",
                                               !.error_message = msg])
    /\ wpc' = "idle"
    /\ wjob' = 0
    /\ last' = NoCall
    /\ UNCHANGED <<queue, now, pollJobs, held, providerVars, cbWait, remote>>

\* ------------------------------------------------------- callback handler
\* A RunpodCallbackPayload: status, and which of output_base64 / output_url it
\* carries ("b64", "url", "both", "none").
Payload(id, status, output, error) ==
    [job_id |-> id, status |-> status, output |-> output, error |-> error]

\* handle_callback lines 240-247: a failure payload.
CallbackFailed(job, payload) ==
    [start_stage(job, "failed", "failed") EXCEPT
        !.error_message = IF payload.error # None THEN payload.error
                          ELSE "runpod worker failed",
        !.finished_at = now]

\* Variant of the completion that records no output reference.
CallbackDoneNoOutput(job, id) ==
    [start_stage(start_stage(job, "packaging", "processing"), "done", "done") EXCEPT
        !.error_message = None,
        !.finished_at = now]

\* handle_callback lines 261-271: the output is stored and the job is done.
CallbackDone(job, id) ==
    [start_stage(start_stage(job, "packaging", "processing"), "done", "done") EXCEPT
        !.output_path = OutputRef(id),
        !.error_message = None,
        !.finished_at = now]

\* Variant of the idempotency check that lets a done job with a recorded output
\* through to the completion path.
AlreadyDoneNoOutput(job) == job.status = "done" /\ job.output_path = NoRef

\* The idempotency check of handle_callback, line 237.
AlreadyDone(job) == job.status = "done" /\ job.output_path # NoRef

\* handle_callback from its entry to its first suspension or its end, on the
\* row as the caller's session holds it (db.get answers from the session's
\* identity map). The commit of stage enhancing expires the row, which is read
\* again from there on.
\* Result: the rows after it, and how it left: "noop" (line 238), "failed"
\* (line 247), "done" (line 271), "download" (suspended at line 257), "raise"
\* (ValueError, line 234 or 259).
HandleCallbackOn(payload, loaded) ==
    LET id == payload.job_id IN
    IF AlreadyDone(loaded) THEN [rows |-> jobs, exit |-> "noop"]
    ELSE IF payload.status \in {"failed", "error"}
    THEN [rows |-> Update(id, Flush(jobs[id], loaded, CallbackFailed(loaded, payload))),
          exit |-> "failed"]
    ELSE LET enhancing == Flush(jobs[id], loaded,
                                start_stage(loaded, "enhancing", "processing")) IN
         IF payload.output \in {"b64", "both"}
         THEN [rows |-> Update(id, CallbackDone(enhancing, id)), exit |-> "done"]
         ELSE IF payload.output = "url"
         THEN [rows |-> Update(id, enhancing), exit |-> "download"]
         ELSE [rows |-> Update(id, enhancing), exit |-> "raise"]

\* handle_callback in a session of its own (the callback route): db.get reads
\* the row as it is.
HandleCallback(payload) ==
    IF payload.job_id \notin Ids THEN [rows |-> jobs, exit |-> "raise"]
    ELSE HandleCallbackOn(payload, jobs[payload.job_id])

\* handle_callback resumed after _download_to_bytes returned: lines 261-271 on
\* the job object it holds.
ResumeCallback(id) == Update(id, CallbackDone(jobs[id], id))

\* The callback the worker process posts for a finished run (handler.py lines
\* 315-348): completed with the output, or failed with the error.
CallbackOf(id) ==
    CASE remote[id] = "OK_B64" -> Payload(id, "completed", "b64", None)
      [] remote[id] = "OK_URL" -> Payload(id, "completed", "url", None)
      [] remote[id] = "ERR"    -> Payload(id, "failed", "none", "pipeline failed")

\* POST /runpod/callback with a valid signature (routes_runpod.runpod_callback).
Callback(id) ==
    /\ remote[id] \in {"OK_B64", "OK_URL", "ERR"}
    /\ id \notin cbWait
    /\ LET r == HandleCallback(CallbackOf(id))
       IN  /\ jobs' = r.rows
           /\ cbWait' = IF r.exit = "download" THEN cbWait \cup {id} ELSE cbWait
           /\ last' = CASE r.exit = "download" -> NoCall
                        [] r.exit = "raise" -> Response("callback", id, 400, {})
                        [] r.exit = "done" -> Response("callback", id, 200, {"output"})
                        [] OTHER -> Response("callback", id, 200, {})
    /\ UNCHANGED <<queue, now, wpc, wjob, pollJobs, held, providerVars, remote>>

\* The download of a suspended callback request returns.
CallbackDownloaded(id) ==
    /\ id \in cbWait
    /\ jobs' = ResumeCallback(id)
    /\ cbWait' = cbWait \ {id}
    /\ last' = Response("callback", id, 200, {"output"})
    /\ UNCHANGED <<queue, now, wpc, wjob, pollJobs, held, providerVars, remote>>

\* The download raises (httpx error): the request ends with a server error.
CallbackDownloadFailed(id) ==
    /\ id \in cbWait
    /\ cbWait' = cbWait \ {id}
    /\ last' = Response("callback", id, 500, {})
    /\ UNCHANGED <<jobs, queue, now, wpc, wjob, pollJobs, held, providerVars, remote>>

\* ------------------------------------------------- callback route, any caller
\* settings.callback_secret, and a secret a forger would use.
callback_secret == "callback-secret"
OtherSecrets == {"forged-secret"}

\* The X-Callback-Signature header is missing (or empty).
NoSignature == <<>>

\* utils.signing.sign_webhook: the HMAC-SHA256 hex digest of the body under the
\* secret, a value that is determined by the two and differs when either does.
sign_webhook(secret, body) == <<"hmac-sha256", secret, body>>

\* Variant of the verification that accepts every signature that is present.
verify_any_signature(secret, body, signature) == signature # NoSignature

\* utils.signing.verify_webhook_signature
verify_webhook_signature(secret, body, signature) == sign_webhook(secret, body) = signature

\* The request bodies that parse as a RunpodCallbackPayload.
CallbackBodies ==
    { Payload(id, status, output, None) :
        id \in JobIds, status \in {"completed", "failed"},
        output \in {"b64", "url", "both", "none"} }

\* The signature headers a request with this body may carry: missing, the
\* digest of the body under the secret or under another secret, or the digest
\* of another body.
Signatures(body) ==
    {NoSignature}
    \cup { sign_webhook(secret, body) : secret \in {callback_secret} \cup OtherSecrets }
    \cup { sign_webhook(callback_secret, other) : other \in CallbackBodies }

\* A callback request: its body and its signature header.
CallbackRequests ==
    UNION { { [body |-> body, signature |-> sig] : sig \in Signatures(body) } :
            body \in CallbackBodies }

\* POST /runpod/callback from any caller (routes_runpod.runpod_callback): the
\* signature is checked (lines 23-26) before the body is parsed and handled.
CallbackRequest(req) ==
    LET id == req.body.job_id IN
    /\ id \notin cbWait
    /\ IF \/ req.signature = NoSignature
          \/ ~verify_webhook_signature(callback_secret, req.body, req.signature)
       THEN /\ last' = Response("callback", id, 401, {})
            /\ UNCHANGED <<jobs, cbWait>>
       ELSE LET r == HandleCallback(req.body)
            IN  /\ jobs' = r.rows
                /\ cbWait' = IF r.exit = "download" THEN cbWait \cup {id} ELSE cbWait
                /\ last' = CASE r.exit = "download" -> NoCall
                             [] r.exit = "raise" -> Response("callback", id, 400, {})
                             [] r.exit = "done" -> Response("callback", id, 200, {"output"})
                             [] OTHER -> Response("callback", id, 200, {})
    /\ UNCHANGED <<queue, now, wpc, wjob, pollJobs, held, providerVars, remote>>

\* ----------------------------------------------------------- the backend
RemoteOutcomes == {"OK_B64", "OK_URL", "ERR", "DEAD"}

\* A run ends on the backend: with an output (inline or by URL), with the
\* worker's own failure report, or without a result (failed, cancelled, timed
\* out, purged).
RemoteFinish(id, outcome) ==
    /\ remote[id] = "RUNNING"
    /\ remote' = [remote EXCEPT ![id] = outcome]
    /\ last' = NoCall
    /\ UNCHANGED <<jobs, queue, now, wpc, wjob, pollJobs, held, providerVars, cbWait>>

\* --------------------------------------------------- reconciliation poller
\* A status body of the Gateway: its "status", what its "output" is ("none":
\* missing or not an object; "b64" / "url": an object with that field; "empty":
\* an object with no output field and no status; "failed": an object whose
\* status is failed) and its "error".
StatusBody(status, output, error) == [status |-> status, output |-> output, error |-> error]

\* What get_job_status can answer for a submission in each state of the backend.
\* A worker run that caught its error returns {"ok": False, "job_id", "error"}
\* (handler.py line 348): the Gateway relays it as the output of a COMPLETED
\* run, or reports the run FAILED with that error.
StatusBodies(state) ==
    CASE state = "RUNNING" -> { StatusBody("IN_QUEUE", "none", None),
                                StatusBody("IN_PROGRESS", "none", None),
                                StatusBody("RETRYING", "none", None) }
      [] state = "OK_B64"  -> { StatusBody("COMPLETED", "b64", None) }
      [] state = "OK_URL"  -> { StatusBody("COMPLETED", "url", None) }
      [] state = "ERR"     -> { StatusBody("COMPLETED", "empty", "pipeline failed"),
                                StatusBody("FAILED", "none", "pipeline failed") }
      [] state = "DEAD"    -> { StatusBody("FAILED", "none", None),
                                StatusBody("CANCELLED", "none", None),
                                StatusBody("TIMED_OUT", "none", None),
                                StatusBody("NOT_FOUND", "none", "runpod job id not found"),
                                StatusBody("COMPLETED", "none", None),
                                StatusBody("COMPLETED", "failed", None) }
      [] OTHER -> {}

\* The select of poll_inflight_jobs, lines 174-178.
Inflight == { i \in Ids : jobs[i].status = "processing" /\ jobs[i].runpod_job_id # NoHandle }

\* Variant of the failure that records no message.
PollFailedNoMessage(job, msg) ==
    [start_stage(job, "failed", "failed") EXCEPT !.finished_at = now]

\* Variant of the failure that leaves finished_at as it is.
PollFailedNoFinish(job, msg) ==
    [start_stage(job, "failed", "failed") EXCEPT !.error_message = msg]

\* _reconcile_runpod_status marks the job failed (lines 195-199, 207-211, 215-219).
PollFailed(job, msg) ==
    [start_stage(job, "failed", "failed") EXCEPT !.error_message = msg,
                                                  !.finished_at = now]

\* Variant of the reconciliation that fails the job whatever the answer.
ReconcileFailsPending(id, body) ==
    [rows |-> Update(id, PollFailed(jobs[id], "runpod job failed")), exit |-> "failed"]

\* _reconcile_runpod_status after get_job_status returned body, up to the next
\* suspension, on the row the sweep selected (held): the session has not read
\* it again since. exit: "pending" (lines 192, 203), "failed", or how the
\* handle_callback it calls at line 229 left.
Reconcile(id, body) ==
    IF body.status \in {"IN_QUEUE", "IN_PROGRESS"} THEN [rows |-> jobs, exit |-> "pending"]
    ELSE IF body.status \in {"FAILED", "CANCELLED", "TIMED_OUT", "NOT_FOUND"}
    THEN [rows |-> Update(id, Flush(jobs[id], held, PollFailed(held,
                      IF body.error # None THEN body.error ELSE "runpod job failed"))),
          exit |-> "failed"]
    ELSE IF body.status # "COMPLETED" THEN [rows |-> jobs, exit |-> "pending"]
    ELSE IF body.output = "none"
    THEN [rows |-> Update(id, Flush(jobs[id], held,
                      PollFailed(held, "runpod completed without output payload"))),
          exit |-> "failed"]
    ELSE IF body.output = "failed"
    THEN [rows |-> Update(id, Flush(jobs[id], held, PollFailed(held, "worker failed"))),
          exit |-> "failed"]
    ELSE HandleCallbackOn(Payload(id, "completed",
                                  IF body.output \in {"b64", "url"} THEN body.output
                                  ELSE "none",
                                  None),
                          held)

\* The for loop of poll_inflight_jobs moves to its next row, or the sweep ends.
SweepNext(rest) ==
    IF rest = {}
    THEN /\ wpc' = "idle" /\ wjob' = 0 /\ pollJobs' = {} /\ held' = NoRow
         /\ UNCHANGED providerVars
    ELSE \E id \in rest : /\ wpc' = "get_status" /\ wjob' = id /\ pollJobs' = rest \ {id}
                          /\ held' = jobs'[id]
                          /\ UNCHANGED providerVars

\* An exception leaves poll_inflight_jobs: _worker logs it (lines 43-45).
SweepAbort ==
    /\ wpc' = "idle" /\ wjob' = 0 /\ pollJobs' = {} /\ held' = NoRow
    /\ UNCHANGED providerVars

\* queue.get() times out on the empty queue: _worker starts a sweep.
PollBegin ==
    /\ wpc = "idle"
    /\ queue = <<>>
    /\ UNCHANGED <<jobs, queue, now, cbWait, remote>>
    /\ SweepNext(Inflight)
    /\ last' = NoCall

\* get_job_status returns body for the job being reconciled.
PollStatus(body) ==
    /\ wpc = "get_status"
    /\ body \in StatusBodies(remote[wjob])
    /\ LET r == Reconcile(wjob, body)
       IN  /\ jobs' = r.rows
           /\ CASE r.exit = "download" -> wpc' = "download" /\ UNCHANGED <<wjob, pollJobs, held, providerVars>>
                [] r.exit = "raise" -> SweepAbort
                [] OTHER -> SweepNext(pollJobs)
           /\ last' = CASE r.exit = "done" -> Response("poll", wjob, 200, {"output"})
                        [] r.exit = "noop" -> Response("poll", wjob, 200, {})
                        [] r.exit = "raise" -> Response("poll", wjob, 400, {})
                        [] OTHER -> NoCall
    /\ UNCHANGED <<queue, now, cbWait, remote>>

\* get_job_status raises (network error, HTTP error).
PollStatusRaise ==
    /\ wpc = "get_status"
    /\ SweepAbort
    /\ last' = NoCall
    /\ UNCHANGED <<jobs, queue, now, cbWait, remote>>

\* The download of the poll-derived completion returns.
PollDownloaded ==
    /\ wpc = "download"
    /\ jobs' = ResumeCallback(wjob)
    /\ SweepNext(pollJobs)
    /\ last' = Response("poll", wjob, 200, {"output"})
    /\ UNCHANGED <<queue, now, cbWait, remote>>

\* The download of the poll-derived completion raises.
PollDownloadFailed ==
    /\ wpc = "download"
    /\ SweepAbort
    /\ last' = Response("poll", wjob, 500, {})
    /\ UNCHANGED <<jobs, queue, now, cbWait, remote>>

\* datetime.utcnow() moves on.
Tick ==
    /\ now < MaxTime
    /\ now' = now + 1
    /\ last' = NoCall
    /\ UNCHANGED <<jobs, queue, wpc, wjob, pollJobs, held, providerVars, cbWait, remote>>

\* The application after on_startup: the tables are empty and the one worker
\* task start() created awaits the queue.
Init ==
    /\ jobs = <<>>
    /\ queue = <<>>
    /\ now = 1
    /\ wpc = "idle"
    /\ wjob = 0
    /\ pollJobs = {}
    /\ held = NoRow
    /\ provider = [task |-> 1, stopping |-> FALSE]
    /\ tasks = <<"get">>
    /\ stops = <<>>
    /\ cbWait = {}
    /\ remote = [j \in AllIds |-> "NONE"]
    /\ last = NoCall

AllStatusBodies == UNION { StatusBodies(st) : st \in {"RUNNING", "OK_B64", "OK_URL", "ERR", "DEAD"} }

\* The lifecycle of a job under the whole environment.
Next ==
    \/ \E req \in Requests, id \in JobIds : CreateJob(req, id)
    \/ \E id \in JobIds : RetryJob(id)
    \/ DispatchBegin
    \/ RemoteAccept
    \/ \E handle \in {NoHandle} \cup JobIds : SubmitReturn(handle)
    \/ \E msg \in SubmitErrors : SubmitRaise(msg)
    \/ \E id \in JobIds, outcome \in RemoteOutcomes : RemoteFinish(id, outcome)
    \/ \E id \in JobIds : Callback(id)
    \/ \E id \in JobIds : CallbackDownloaded(id)
    \/ \E id \in JobIds : CallbackDownloadFailed(id)
    \/ PollBegin
    \/ \E body \in AllStatusBodies : PollStatus(body)
    \/ PollStatusRaise
    \/ PollDownloaded
    \/ PollDownloadFailed
    \/ Tick

Spec == Init /\ [][Next]_vars

\* The clock moves on while the worker has nothing at hand.
TickIdle == wpc = "idle" /\ queue = <<>> /\ Tick

\* A submission whose uuid4 is the next unused identifier.
CreateNext(req) ==
    \E id \in RowIds : /\ id = Cardinality(Ids) + 1 \/ Ids = RowIds
                       /\ CreateJob(req, id)

\* Intake over several rows: submissions under several names and bytes, the
\* worker, retries, and a backend that completes runs with inline output.
NextIntake ==
    \/ \E req \in IntakeRequests : CreateNext(req)
    \/ \E id \in RowIds : RetryJob(id)
    \/ DispatchBegin
    \/ RemoteAccept
    \/ \E handle \in RowIds : SubmitReturn(handle)
    \/ \E msg \in SubmitErrors : SubmitRaise(msg)
    \/ \E id \in RowIds : RemoteFinish(id, "OK_B64")
    \/ \E id \in RowIds : Callback(id)
    \/ TickIdle

SpecIntake == Init /\ [][NextIntake]_vars

\* The callback endpoint open to any caller: a job's dispatch, and callback
\* requests with every body and signature, whatever the backend is doing.
NextWebhook ==
    \/ \E req \in LiveRequests, id \in JobIds : CreateJob(req, id)
    \/ \E id \in JobIds : RetryJob(id)
    \/ DispatchBegin
    \/ RemoteAccept
    \/ \E handle \in JobIds : SubmitReturn(handle)
    \/ \E msg \in SubmitErrors : SubmitRaise(msg)
    \/ \E req \in CallbackRequests : CallbackRequest(req)
    \/ \E id \in JobIds : CallbackDownloaded(id)
    \/ \E id \in JobIds : CallbackDownloadFailed(id)

SpecWebhook == Init /\ [][NextWebhook]_vars

\* ------------------------------------------------------------- liveness
\* The lifecycle with a backend and a network that answer: submit_job returns a
\* handle or raises, get_job_status and the downloads return, and every run
\* ends. Callbacks may or may not be delivered (the callback endpoint need
\* not be reachable), so nothing is assumed of them.
Submitted == \E handle \in JobIds : SubmitReturn(handle)
SubmitFails == \E msg \in SubmitErrors : SubmitRaise(msg)
RunEnds == \E id \in JobIds, outcome \in RemoteOutcomes : RemoteFinish(id, outcome)
StatusAnswered == \E body \in AllStatusBodies : PollStatus(body)
CallbackResumes == \E id \in JobIds : CallbackDownloaded(id)

NextLive ==
    \/ \E req \in LiveRequests, id \in JobIds : CreateJob(req, id)
    \/ \E id \in JobIds : RetryJob(id)
    \/ DispatchBegin
    \/ RemoteAccept
    \/ Submitted
    \/ SubmitFails
    \/ RunEnds
    \/ \E id \in JobIds : Callback(id)
    \/ CallbackResumes
    \/ PollBegin
    \/ StatusAnswered
    \/ PollDownloaded

\* The worker task is scheduled whenever it can run (the event loop is fair to
\* it, queue.get has a timeout), the Gateway calls carry timeouts, and the
\* backend ends every run it took.
SpecLive ==
    /\ Init
    /\ [][NextLive]_vars
    /\ WF_vars(DispatchBegin)
    /\ WF_vars(PollBegin)
    /\ WF_vars(RemoteAccept)
    /\ WF_vars(Submitted \/ SubmitFails)
    /\ WF_vars(RunEnds)
    /\ WF_vars(StatusAnswered)
    /\ WF_vars(PollDownloaded)
    /\ WF_vars(CallbackResumes)

\* ----------------------------------------------------------- worker loop
\* The single worker over two jobs: submissions, retries, dispatch with a
\* Gateway that returns a handle or raises, runs that stay in progress, and
\* sweeps whose status queries return or raise.
StatusRaises == PollStatusRaise
StatusPending == \E body \in StatusBodies("RUNNING") : PollStatus(body)
SubmittedRow == \E handle \in RowIds : SubmitReturn(handle)

NextWorker ==
    \/ \E req \in WorkerRequests : CreateNext(req)
    \/ \E id \in RowIds : RetryJob(id)
    \/ DispatchBegin
    \/ RemoteAccept
    \/ SubmittedRow
    \/ SubmitFails
    \/ PollBegin
    \/ StatusPending
    \/ StatusRaises

\* The event loop schedules the worker task whenever it can run; queue.get
\* times out when the queue stays empty; the Gateway calls carry timeouts.
SpecWorker ==
    /\ Init
    /\ [][NextWorker]_vars
    /\ WF_vars(DispatchBegin)
    /\ WF_vars(PollBegin)
    /\ WF_vars(RemoteAccept)
    /\ WF_vars(SubmittedRow \/ SubmitFails)
    /\ WF_vars(StatusPending \/ StatusRaises)

\* ------------------------------------------------- functions of the backend
\* The pure functions the orchestrator relies on, applied to inputs drawn from
\* bounded sets: intake validation as create_job calls it, the configuration
\* fingerprint, and the signed asset tokens of utils/signing.py. A behaviour
\* of SpecFunctions is one call on one input, recorded in `last`.

\* A file name as the route hands it over (UploadFile.filename, a str), and
\* the pathlib.Path that validate_extension declares as its parameter.
StrArg(upload) == [type |-> "str", value |-> upload.stem \o upload.suffix]
PathArg(upload) == [type |-> "Path", stem |-> upload.stem, suffix |-> upload.suffix]

\* validate_extension(path, kind): `path.suffix` exists on a Path only; on the
\* suffix it raises ValueError unless the lower-cased suffix is allowed.
call_validate_extension(arg, kind) ==
    IF arg.type # "Path" THEN "AttributeError"
    ELSE IF lower(arg.suffix) \notin
              (IF kind = "video" THEN allowed_video_ext ELSE allowed_image_ext)
         THEN "ValueError"
         ELSE "ok"

\* JobService._validate_size(content)
call_validate_size(upload) == IF upload.size > MaxUploadBytes THEN "ValueError" ELSE "ok"

\* The first exception among the checks, in the order they are made.
FirstRaised(outcomes) ==
    LET bad == {i \in 1..Len(outcomes) : outcomes[i] # "ok"}
    IN  IF bad = {} THEN "ok" ELSE outcomes[CHOOSE i \in bad : \A j \in bad : i <= j]

\* create_job lines 60-68: the names are passed on as the str they are.
create_job_validation(req) ==
    FirstRaised(<< call_validate_extension(StrArg(req.reference_video), "video"),
                   call_validate_extension(StrArg(req.source_image), "image"),
                   call_validate_size(req.reference_video),
                   call_validate_size(req.source_image) >>)

\* The same checks on the names taken as paths.
path_validation(req) ==
    FirstRaised(<< call_validate_extension(PathArg(req.reference_video), "video"),
                   call_validate_extension(PathArg(req.source_image), "image"),
                   call_validate_size(req.reference_video),
                   call_validate_size(req.source_image) >>)

\* routes_jobs.create_job: ValueError is answered 400, any other exception
\* leaves the route and is answered 500; validation comes before the first
\* write, so that a rejected submission inserts, stores and enqueues nothing.
route_status(raised) ==
    IF raised = "ok" THEN 202 ELSE IF raised = "ValueError" THEN 400 ELSE 500

FunctionVideos ==
    { Upload("a", suffix, "v1", size) :
        suffix \in {".mp4", ".MP4", ".txt", ""},
        size \in {1024, MaxUploadBytes, MaxUploadBytes + 1} }

FunctionImages ==
    { Upload("s", suffix, "i1", size) :
        suffix \in {".jpg", ".JPG", ".gif"}, size \in {2048, MaxUploadBytes + 1} }

FunctionRequests ==
    [ mode : {"video_swap"}, quality : {"balanced"}, enable_4k : {FALSE},
      aspect_ratio : {"9:16"},
      reference_video : FunctionVideos, source_image : FunctionImages ]

\* POST /jobs up to the end of validation.
ValidateSubmission(req) ==
    LET raised == create_job_validation(req)
    IN  /\ last' = [op |-> "validate", req |-> req, raised |-> raised,
                    code |-> route_status(raised), wrote |-> {}]
        /\ UNCHANGED <<jobs, queue, now, wpc, wjob, pollJobs, held, providerVars, cbWait, remote>>

\* create_job lines 70-80 on the tuple the fingerprint is computed from; the
\* audio digest is "" when no audio is submitted.
FingerprintParts(t) ==
    << t.mode, t.quality, IF t.enable_4k THEN "True" ELSE "False", t.aspect_ratio,
       t.video_sha256, t.image_sha256, t.audio_sha256 >>

FingerprintTuples ==
    [ mode : {"video_swap", "photo_sing"}, quality : {"fast", "balanced", "max"},
      enable_4k : BOOLEAN, aspect_ratio : {"9:16", "1:1"},
      video_sha256 : {"v1", "v2"}, image_sha256 : {"i1", "i2"},
      audio_sha256 : {"", "a1"} ]

\* Two fingerprints computed side by side.
Fingerprint(a, b) ==
    /\ last' = [op |-> "fingerprint", a |-> a, b |-> b,
                ha |-> stable_config_hash(FingerprintParts(a)),
                hb |-> stable_config_hash(FingerprintParts(b))]
    /\ UNCHANGED <<jobs, queue, now, wpc, wjob, pollJobs, held, providerVars, cbWait, remote>>

\* ----------------------------------------------------- signed asset tokens
\* utils/signing.py, TokenSigner. A token is the str base64.urlsafe_b64encode
\* returns, kept as the sequence of its characters' code points, and bytes are
\* 0..255. time.time() is read in ticks of 1/TicksPerSecond second.
Dot == 46         \* b"."
Pad == 61         \* b"="
NotADigit == 64   \* binascii's table entry of a character outside the alphabet

SignerSecrets == {5, 9}
TokenPaths == { <<>>, <<97>>, <<97, 98>> }
TokenPayloads == [ path : TokenPaths, exp : 0..MaxExp ]
Clock == 0..((MaxExp + 1) * TicksPerSecond)

NoPayload == [path |-> <<>>, exp |-> -1]
Returned(payload) == [error |-> None, payload |-> payload]
Raised(msg) == [error |-> msg, payload |-> NoPayload]

\* json.dumps(payload).encode(): the path's bytes and the expiry's digit.
json_dumps(payload) == Append(payload.path, 48 + payload.exp)

\* json.loads(body) raises on what is not a dumped payload.
IsJson(body) == body # <<>> /\ body[Len(body)] \in 48..57
json_loads(body) ==
    [path |-> SubSeq(body, 1, Len(body) - 1), exp |-> body[Len(body)] - 48]

\* hmac.new(secret, body, sha256).hexdigest(): a keyed digest of fixed length
\* in lower-case hex, modelled collision-free on the bodies that are signed
\* (their length and bytes, each shifted by the key).
HexChar(n) == IF n < 10 THEN 48 + n ELSE 87 + n
HexByte(b) == << HexChar(b \div 16), HexChar(b % 16) >>
KeyedByte(secret, body, i) ==
    ((IF i <= Len(body) THEN body[i] ELSE 0) + secret) % 256

hexdigest(secret, body) ==
    HexByte((Len(body) + secret) % 256) \o HexByte(KeyedByte(secret, body, 1))
        \o HexByte(KeyedByte(secret, body, 2)) \o HexByte(KeyedByte(secret, body, 3))

\* The URL-safe alphabet: A-Z, a-z, 0-9, "-", "_".
B64Char(d) ==
    IF d < 26 THEN 65 + d
    ELSE IF d < 52 THEN 71 + d
    ELSE IF d < 62 THEN d - 4
    ELSE IF d = 62 THEN 45 ELSE 95

\* urlsafe_b64decode translates "-" and "_" to "+" and "/" and hands over to
\* the standard decoder, which therefore takes "+" and "/" as well.
B64Digit(c) ==
    IF c \in 65..90 THEN c - 65
    ELSE IF c \in 97..122 THEN c - 71
    ELSE IF c \in 48..57 THEN c + 4
    ELSE IF c \in {45, 43} THEN 62
    ELSE IF c \in {95, 47} THEN 63
    ELSE NotADigit

RECURSIVE b64encode(_)
\* base64.urlsafe_b64encode: three bytes to four characters, the last group
\* filled with zero bits and padded with "=".
b64encode(bytes) ==
    IF bytes = <<>> THEN <<>>
    ELSE IF Len(bytes) = 1
    THEN << B64Char(bytes[1] \div 4), B64Char((bytes[1] % 4) * 16), Pad, Pad >>
    ELSE IF Len(bytes) = 2
    THEN LET n == bytes[1] * 256 + bytes[2]
         IN  << B64Char(n \div 1024), B64Char((n \div 16) % 64),
                B64Char((n % 16) * 4), Pad >>
    ELSE LET n == bytes[1] * 65536 + bytes[2] * 256 + bytes[3]
         IN  << B64Char(n \div 262144), B64Char((n \div 4096) % 64),
                B64Char((n \div 64) % 64), B64Char(n % 64) >>
             \o b64encode(SubSeq(bytes, 4, Len(bytes)))

DecodeError == << -1 >>

RECURSIVE a2b_base64(_, _, _, _, _)
\* base64.urlsafe_b64decode (binascii.a2b_base64, not strict): characters
\* outside the alphabet are skipped, a complete pad ends the input, the bits
\* left over in the last group are dropped, and an incomplete last group is
\* an error.
a2b_base64(chars, quad_pos, leftchar, pads, out) ==
    IF chars = <<>> THEN (IF quad_pos # 0 THEN DecodeError ELSE out)
    ELSE LET c == Head(chars)
             rest == Tail(chars)
             d == B64Digit(c)
         IN  IF c = Pad
             THEN IF quad_pos >= 2 /\ quad_pos + pads + 1 >= 4
                  THEN out
                  ELSE a2b_base64(rest, quad_pos, leftchar,
                                  IF quad_pos >= 2 THEN pads + 1 ELSE pads, out)
             ELSE IF d = NotADigit
             THEN a2b_base64(rest, quad_pos, leftchar, pads, out)
             ELSE CASE quad_pos = 0 -> a2b_base64(rest, 1, d, 0, out)
                    [] quad_pos = 1 ->
                         a2b_base64(rest, 2, d % 16, 0,
                                    Append(out, leftchar * 4 + d \div 16))
                    [] quad_pos = 2 ->
                         a2b_base64(rest, 3, d % 4, 0,
                                    Append(out, leftchar * 16 + d \div 4))
                    [] OTHER ->
                         a2b_base64(rest, 0, 0, 0, Append(out, leftchar * 64 + d))

b64decode(token) == a2b_base64(token, 0, 0, 0, <<>>)

\* decoded.rsplit(b".", 1): the position of the last dot, 0 when there is none.
LastDot(bytes) ==
    LET dots == {i \in 1..Len(bytes) : bytes[i] = Dot}
    IN  IF dots = {} THEN 0 ELSE CHOOSE i \in dots : \A j \in dots : j <= i

\* TokenSigner.sign
sign(secret, payload) ==
    LET body == json_dumps(payload)
    IN  b64encode(body \o <<Dot>> \o hexdigest(secret, body))

\* TokenSigner.verify with an expiry that ends one second early.
verify_expiring_early(secret, token, clock) ==
    LET decoded == b64decode(token)
        dot == LastDot(decoded)
        body == SubSeq(decoded, 1, dot - 1)
        signature == SubSeq(decoded, dot + 1, Len(decoded))
    IN  IF decoded = DecodeError THEN Raised("invalid token format")
        ELSE IF dot = 0 THEN Raised("not enough values to unpack")
        ELSE IF signature # hexdigest(secret, body) THEN Raised("invalid token signature")
        ELSE IF ~IsJson(body) THEN Raised("Expecting value")
        ELSE IF json_loads(body).exp <= clock \div TicksPerSecond
             THEN Raised("token expired")
             ELSE Returned(json_loads(body))

\* TokenSigner.verify at a reading of time.time(): decode, split at the last
\* dot, compare the signature, parse the body, compare the expiry with the
\* reading cut to whole seconds. Every failure is a ValueError.
verify(secret, token, clock) ==
    LET decoded == b64decode(token)
        dot == LastDot(decoded)
        body == SubSeq(decoded, 1, dot - 1)
        signature == SubSeq(decoded, dot + 1, Len(decoded))
    IN  IF decoded = DecodeError THEN Raised("invalid token format")
        ELSE IF dot = 0 THEN Raised("not enough values to unpack")
        ELSE IF signature # hexdigest(secret, body) THEN Raised("invalid token signature")
        ELSE IF ~IsJson(body) THEN Raised("Expecting value")
        ELSE IF json_loads(body).exp < clock \div TicksPerSecond
             THEN Raised("token expired")
             ELSE Returned(json_loads(body))

\* One bit of one character of a token turned over.
FlipBit(c, k) == IF (c \div (2 ^ k)) % 2 = 1 THEN c - 2 ^ k ELSE c + 2 ^ k
MutateToken(token, i, k) == [token EXCEPT ![i] = FlipBit(token[i], k)]

\* verify(sign(payload)) at a reading of the clock.
SignThenVerify(secret, payload, clock) ==
    LET token == sign(secret, payload)
    IN  /\ last' = [op |-> "verify", secret |-> secret, payload |-> payload,
                    clock |-> clock, token |-> token,
                    result |-> verify(secret, token, clock)]
        /\ UNCHANGED <<jobs, queue, now, wpc, wjob, pollJobs, held, providerVars, cbWait, remote>>

\* verify of a signed token with bit k of its character i turned over.
VerifyMutated(secret, payload, i, k, clock) ==
    LET token == sign(secret, payload)
    IN  /\ last' = [op |-> "verify_mutated", secret |-> secret, payload |-> payload,
                    clock |-> clock, token |-> MutateToken(token, i, k),
                    result |-> verify(secret, MutateToken(token, i, k), clock)]
        /\ UNCHANGED <<jobs, queue, now, wpc, wjob, pollJobs, held, providerVars, cbWait, remote>>

\* Nothing was called yet.
Fresh == last = NoCall

NextFunctions ==
    \/ Fresh /\ \E req \in FunctionRequests : ValidateSubmission(req)
    \/ Fresh /\ \E a \in FingerprintTuples, b \in FingerprintTuples : Fingerprint(a, b)
    \/ Fresh /\ \E secret \in SignerSecrets, payload \in TokenPayloads, clock \in Clock :
                    SignThenVerify(secret, payload, clock)
    \/ Fresh /\ \E secret \in SignerSecrets, payload \in TokenPayloads,
                    k \in 0..7, clock \in Clock :
                    \E i \in 1..Len(sign(secret, payload)) :
                        VerifyMutated(secret, payload, i, k, clock)

SpecFunctions == Init /\ [][NextFunctions]_vars

\* ------------------------------------------------- the queue provider
\* Where a worker task is in _worker: at the test of its while loop ("test"),
\* suspended in queue.get ("get"), in dispatch_to_compute ("dispatch") or in
\* poll_inflight_jobs ("poll"), or returned ("ended").
LoopBody == {"get", "dispatch", "poll"}

\* asyncio.create_task(self._worker()): the task starts at the loop's test.
create_task == Append(tasks, "test")

\* Variant of start() without the test of self._task.
ProviderStartUnguarded ==
    /\ Len(tasks) < MaxTasks
    /\ tasks' = create_task
    /\ provider' = [provider EXCEPT !.task = Len(tasks')]
    /\ last' = [op |-> "start", created |-> TRUE]
    /\ UNCHANGED <<jobs, queue, now, wpc, wjob, pollJobs, held, stops, cbWait, remote>>

\* InProcessQueueProvider.start: a task is created when there is none.
ProviderStart ==
    /\ IF provider.task = NoTask
       THEN /\ Len(tasks) < MaxTasks
            /\ tasks' = create_task
            /\ provider' = [provider EXCEPT !.task = Len(tasks')]
            /\ last' = [op |-> "start", created |-> TRUE]
       ELSE /\ last' = [op |-> "start", created |-> FALSE]
            /\ UNCHANGED <<provider, tasks>>
    /\ UNCHANGED <<jobs, queue, now, wpc, wjob, pollJobs, held, stops, cbWait, remote>>

\* InProcessQueueProvider.stop up to its await: the event is set, and the call
\* waits for the task unless there is none or it has returned already.
ProviderStop ==
    /\ IF provider.task = NoTask
       THEN /\ provider' = [provider EXCEPT !.stopping = TRUE]
            /\ UNCHANGED stops
       ELSE IF tasks[provider.task] = "ended"
       THEN /\ provider' = [task |-> NoTask, stopping |-> TRUE]
            /\ UNCHANGED stops
       ELSE /\ Len(stops) < MaxStops
            /\ provider' = [provider EXCEPT !.stopping = TRUE]
            /\ stops' = Append(stops, provider.task)
    /\ last' = [op |-> "stop"]
    /\ UNCHANGED <<jobs, queue, now, wpc, wjob, pollJobs, held, tasks, cbWait, remote>>

\* stop line 30: the awaited task has returned, self._task = None.
ProviderStopReturn(n) ==
    /\ n \in 1..Len(stops)
    /\ tasks[stops[n]] = "ended"
    /\ provider' = [provider EXCEPT !.task = NoTask]
    /\ stops' = [k \in 1..(Len(stops) - 1) |-> IF k < n THEN stops[k] ELSE stops[k + 1]]
    /\ last' = NoCall
    /\ UNCHANGED <<jobs, queue, now, wpc, wjob, pollJobs, held, tasks, cbWait, remote>>

\* InProcessQueueProvider.enqueue
ProviderEnqueue(id) ==
    /\ Len(queue) < MaxQueue
    /\ queue' = Append(queue, id)
    /\ last' = NoCall
    /\ UNCHANGED <<jobs, now, wpc, wjob, pollJobs, held, providerVars, cbWait, remote>>

\* What a step of worker task t leaves alone.
WorkerFrame == UNCHANGED <<jobs, now, wpc, wjob, pollJobs, held, provider, stops, cbWait, remote>>

\* _worker line 36: the loop goes on unless the event is set.
WorkerTest(t) ==
    /\ tasks[t] = "test"
    /\ tasks' = [tasks EXCEPT ![t] = IF provider.stopping THEN "ended" ELSE "get"]
    /\ last' = NoCall
    /\ UNCHANGED queue
    /\ WorkerFrame

\* _worker lines 38, 49-51: queue.get returns an entry and the dispatch begins.
WorkerGet(t) ==
    /\ tasks[t] = "get"
    /\ queue # <<>>
    /\ queue' = Tail(queue)
    /\ tasks' = [tasks EXCEPT ![t] = "dispatch"]
    /\ last' = NoCall
    /\ WorkerFrame

\* _worker lines 39-42: queue.get times out and a sweep begins.
WorkerTimeout(t) ==
    /\ tasks[t] = "get"
    /\ queue = <<>>
    /\ tasks' = [tasks EXCEPT ![t] = "poll"]
    /\ last' = NoCall
    /\ UNCHANGED queue
    /\ WorkerFrame

\* _worker lines 43-47 and 52-63: the dispatch or the sweep is over, whether it
\* returned or raised, and the loop comes back to its test.
WorkerLoop(t) ==
    /\ tasks[t] \in {"dispatch", "poll"}
    /\ tasks' = [tasks EXCEPT ![t] = "test"]
    /\ last' = NoCall
    /\ UNCHANGED queue
    /\ WorkerFrame

\* The provider as __init__ leaves it: no task, the event clear.
InitProvider ==
    /\ jobs = <<>>
    /\ queue = <<>>
    /\ now = 1
    /\ wpc = "idle"
    /\ wjob = 0
    /\ pollJobs = {}
    /\ held = NoRow
    /\ provider = [task |-> NoTask, stopping |-> FALSE]
    /\ tasks = <<>>
    /\ stops = <<>>
    /\ cbWait = {}
    /\ remote = [j \in AllIds |-> "NONE"]
    /\ last = NoCall

\* start, stop and enqueue called in any order while the worker tasks run.
NextProvider ==
    \/ ProviderStart
    \/ ProviderStop
    \/ \E n \in 1..MaxStops : ProviderStopReturn(n)
    \/ \E id \in JobIds : ProviderEnqueue(id)
    \/ \E t \in 1..Len(tasks) : WorkerTest(t)
    \/ \E t \in 1..Len(tasks) : WorkerGet(t)
    \/ \E t \in 1..Len(tasks) : WorkerTimeout(t)
    \/ \E t \in 1..Len(tasks) : WorkerLoop(t)

SpecProvider == InitProvider /\ [][NextProvider]_vars

\* ================================================================ claims
IsDone(job) == job.status = "done" /\ job.output_path # NoRef

\* C1: a submission with the fingerprint of a row that is queued, processing or
\* done returns that very row, creates no row and writes no input to storage.
C1_DedupReturnsSameJob ==
    [][ \A j \in Ids :
          ( /\ last'.op = "create" /\ last'.code = 202
            /\ jobs[j].status \in LiveStatuses
            /\ jobs[j].config_hash = jobs'[last'.job].config_hash )
          => (last'.job = j /\ jobs' = jobs /\ last'.wrote = {}) ]_vars

\* C2: once a completion has made the job done, the completion handler that comes
\* second (the genuine callback or the poll-derived one) changes no field of the
\* job and writes no output.
C2_SecondCompletionIsNoop ==
    [][ \A j \in Ids :
          (IsDone(jobs[j]) /\ last'.op \in {"callback", "poll"} /\ last'.job = j)
          => (jobs'[j] = jobs[j] /\ last'.wrote = {}) ]_vars

\* C3: a callback delivered to a job that is done with a recorded output changes
\* no row, writes nothing and is answered with success.
C3_DuplicateCallbackIsNoop ==
    [][ \A j \in JobIds :
          (j \in Ids /\ IsDone(jobs[j]) /\ Callback(j))
          => (jobs' = jobs /\ last' = Response("callback", j, 200, {})) ]_vars

\* C3 witness: a duplicate delivery to a done job has been answered.
C3_Witness ==
    \E j \in Ids : IsDone(jobs[j]) /\ last = Response("callback", j, 200, {})

\* C4: every created job that is queued, retry or processing eventually is done
\* or failed.
C4_EveryJobTerminates ==
    \A j \in JobIds :
        (j \in Ids /\ jobs[j].status \in {"queued", "retry", "processing"})
        ~> (j \in Ids /\ jobs[j].status \in {"done", "failed"})

\* C5: a done job keeps its status; a failed job keeps it or is taken to retry
\* by the retry request, and by nothing else.
C5_TerminalOnce ==
    [][ \A j \in Ids :
          /\ jobs[j].status = "done" => jobs'[j].status = "done"
          /\ jobs[j].status = "failed" =>
                \/ jobs'[j].status = "failed"
                \/ jobs'[j].status = "retry" /\ last'.op = "retry" ]_vars

\* C6: output_path is set exactly when the status is done.
C6_OutputIffDone ==
    \A j \in Ids : (jobs[j].output_path # NoRef) <=> (jobs[j].status = "done")

\* C7: finished_at is set exactly when the status is done or failed.
C7_FinishedIffTerminal ==
    \A j \in Ids : (jobs[j].finished_at # NoTime) <=> (jobs[j].status \in {"done", "failed"})

\* C8: no two rows with the same config_hash are queued, processing or done.
C8_OneLiveRowPerFingerprint ==
    \A i, k \in Ids :
        ( /\ jobs[i].config_hash = jobs[k].config_hash
          /\ jobs[i].status \in LiveStatuses
          /\ jobs[k].status \in LiveStatuses ) => i = k

\* The newest row (created_at, then id) among the queued, processing and done
\* rows with a fingerprint.
IsNewestLive(j) ==
    /\ jobs[j].status \in LiveStatuses
    /\ \A k \in Ids :
          (jobs[k].config_hash = jobs[j].config_hash /\ jobs[k].status \in LiveStatuses)
          => \/ jobs[j].created_at > jobs[k].created_at
             \/ jobs[j].created_at = jobs[k].created_at /\ j >= k

\* C9: whenever a row with the fingerprint is queued, processing or done,
\* create_job resolves the submission to the newest such row, whatever other
\* rows share the fingerprint.
C9_ReturnsNewestLive ==
    \A j \in Ids : IsNewestLive(j) => ExistingJob(jobs[j].config_hash) = j

StatusEdges ==
    { <<"queued", "processing">>, <<"processing", "done">>, <<"processing", "failed">>,
      <<"failed", "retry">>, <<"retry", "processing">> }

\* C10: every change of a job's status is one of the edges of the state machine.
\* A completion that ends in done commits status processing (stage enhancing,
\* handle_callback line 249) before it commits done, so a step into done is
\* judged as the two changes the code makes: into processing, then
\* processing -> done.
C10_StatusEdges ==
    [][ \A j \in Ids :
          jobs'[j].status # jobs[j].status
          => IF jobs'[j].status = "done"
             THEN \/ jobs[j].status = "processing"
                  \/ <<jobs[j].status, "processing">> \in StatusEdges
             ELSE <<jobs[j].status, jobs'[j].status>> \in StatusEdges ]_vars

\* A step in which the worker calls submit_job for job j.
SubmitBegins(j) == wpc # "submit" /\ wpc' = "submit" /\ wjob' = j

\* C11: a submission that intake resolves to an existing job changes no field of
\* any job and starts no submission, and the queue entries it leaves never make
\* the worker call submit_job for a job that is not queued or retry: each
\* submission starts from queued or retry and leaves the job processing, so a
\* job is submitted once per creation or retry however many entries name it.
C11_NoDuplicateDispatch ==
    [][ /\ (last'.op = "create" /\ last'.code = 202 /\ last'.wrote = {})
           => (jobs' = jobs /\ wpc' = wpc /\ wjob' = wjob /\ remote' = remote)
        /\ \A j \in Ids :
              SubmitBegins(j) => /\ jobs[j].status \in {"queued", "retry"}
                                 /\ jobs'[j].status = "processing" ]_vars

\* C11 witness: the job is being submitted and the entry a duplicate submission
\* left for it is the next one in the queue.
C11_Witness ==
    \E j \in Ids : wpc = "submit" /\ wjob = j /\ queue # <<>> /\ Head(queue) = j

\* C12: when submit_job raises while the worker dispatches a job, the job is
\* left failed with the raised message as error_message and with finished_at
\* set; and the worker submits no failed job (only a retry re-arms it).
C12_DispatchFailureIsTerminal ==
    [][ /\ \A msg \in SubmitErrors :
              SubmitRaise(msg) => /\ jobs'[wjob].status = "failed"
                                  /\ jobs'[wjob].error_message = msg
                                  /\ jobs'[wjob].finished_at # NoTime
        /\ \A j \in Ids : SubmitBegins(j) => jobs[j].status # "failed" ]_vars

\* C13: retry on a failed job sets status retry and stage queued, clears
\* error_message and enqueues the id; and a job in retry is eventually submitted
\* to the Gateway again.
C13_RetryRedispatches ==
    /\ [][ \A j \in Ids :
              (jobs[j].status = "failed" /\ RetryJob(j))
              => /\ jobs' = Update(j, [jobs[j] EXCEPT !.status = "retry",
                                                       !.stage = "queued",
                                                       !.error_message = None])
                 /\ queue' = Append(queue, j) ]_vars
    /\ \A j \in JobIds :
          (j \in Ids /\ jobs[j].status = "retry") ~> (wpc = "submit" /\ wjob = j)

\* C14: for a job the Gateway accepted with a handle, a delivered callback with
\* status completed and output_base64 leaves the job done with an output
\* reference and finished_at set.
C14_CallbackCompletes ==
    [][ \A j \in Ids :
          (jobs[j].runpod_job_id # NoHandle /\ remote[j] = "OK_B64" /\ Callback(j))
          => /\ jobs'[j].status = "done"
             /\ jobs'[j].output_path # NoRef
             /\ jobs'[j].finished_at # NoTime ]_vars

\* C14 witness: the inline callback of an accepted job has been served and the
\* job is done.
C14_Witness ==
    \E j \in Ids : /\ last = Response("callback", j, 200, {"output"})
                    /\ remote[j] = "OK_B64"
                    /\ jobs[j].runpod_job_id # NoHandle
                    /\ jobs[j].status = "done"

\* C15: a poll-derived completion whose output carries neither output_base64
\* nor output_url, delivered for a job that is not done, leaves the job failed
\* with an error_message.
C15_MalformedCompletionFails ==
    [][ \A body \in AllStatusBodies :
          ( /\ body.status = "COMPLETED" /\ body.output = "empty"
            /\ wjob \in Ids /\ ~AlreadyDone(jobs[wjob])
            /\ PollStatus(body) )
          => /\ jobs'[wjob].status = "failed"
             /\ jobs'[wjob].error_message # None ]_vars

\* Job j has an entry in the queue.
InQueue(j) == \E n \in 1..Len(queue) : queue[n] = j

\* Job j waits in the queue for its dispatch.
AwaitsDispatch(j) == j \in Ids /\ InQueue(j) /\ jobs[j].status \in {"queued", "retry"}

\* Job j is what a reconciliation sweep selects.
AwaitsPoll(j) ==
    j \in Ids /\ jobs[j].status = "processing" /\ jobs[j].runpod_job_id # NoHandle

\* C17: when get_job_status raises for a job of a sweep, no job changes (the job
\* stays processing), the sweep goes on to the other jobs it selected, and the
\* worker is back at the queue when there is none.
C17_StatusFailureSkipsOneJob ==
    [][ PollStatusRaise
        => /\ jobs' = jobs
           /\ pollJobs # {} => (wpc' = "get_status" /\ wjob' \in pollJobs)
           /\ pollJobs = {} => wpc' = "idle" ]_vars

\* C18: an exception from a dispatch leaves the worker at the queue with the
\* other entries in place, and every job that waits in the queue is eventually
\* dispatched.
C18_DispatchFailureIsolated ==
    /\ [][ SubmitFails => (wpc' = "idle" /\ queue' = queue) ]_vars
    /\ \A j \in RowIds : AwaitsDispatch(j) ~> (wpc = "submit" /\ wjob = j)

\* C18 witness: one job's dispatch has failed and the worker is dispatching the
\* other job.
C18_Witness ==
    \E j, k \in Ids : /\ j # k
                       /\ jobs[j].status = "failed" /\ jobs[j].error_message \in SubmitErrors
                       /\ wpc = "submit" /\ wjob = k

\* C19: every job that waits in the queue is eventually dispatched, and every
\* job that stays processing with a handle is eventually queried by a sweep.
C19_NeitherDutyStarves ==
    /\ \A j \in RowIds : AwaitsDispatch(j) ~> (wpc = "submit" /\ wjob = j)
    /\ \A j \in RowIds : AwaitsPoll(j) ~> (~AwaitsPoll(j) \/ (wpc = "get_status" /\ wjob = j))

\* The signature of a callback request is the digest of its body under the
\* callback secret.
SignatureOk(req) == req.signature = sign_webhook(callback_secret, req.body)

\* C16: a success payload with both output_base64 and output_url, or with
\* neither, is rejected (the request is answered 400) and does not make the job
\* done.
C16_ExactlyOneOutput ==
    [][ \A req \in CallbackRequests :
          ( /\ SignatureOk(req)
            /\ req.body.status = "completed" /\ req.body.output \in {"both", "none"}
            /\ req.body.job_id \in Ids /\ ~AlreadyDone(jobs[req.body.job_id])
            /\ CallbackRequest(req) )
          => /\ last' = Response("callback", req.body.job_id, 400, {})
             /\ jobs'[req.body.job_id].status # "done" ]_vars

\* C20: a callback request whose signature is missing or is not the digest of
\* its body under the callback secret is answered 401, changes no job and
\* writes nothing.
C20_BadSignatureRejected ==
    [][ \A req \in CallbackRequests :
          (~SignatureOk(req) /\ CallbackRequest(req))
          => /\ jobs' = jobs
             /\ cbWait' = cbWait
             /\ last' = Response("callback", req.body.job_id, 401, {}) ]_vars

\* C20 witness: a request has been rejected for its signature while its job was
\* waiting for a completion.
C20_Witness ==
    \E j \in Ids : /\ last = Response("callback", j, 401, {})
                    /\ jobs[j].status = "processing"
\* C21: a submission with an input whose extension is not allowed for its
\* kind, or above the size ceiling, is refused with a ValueError answered 400,
\* and no row is inserted, nothing is stored and nothing is enqueued; a
\* submission whose inputs are all valid passes validation.
C21_InvalidInputRejected ==
    last.op = "validate" =>
        /\ path_validation(last.req) # "ok" =>
              /\ last.raised = "ValueError" /\ last.code = 400
              /\ last.wrote = {} /\ jobs = <<>> /\ queue = <<>>
        /\ path_validation(last.req) = "ok" => last.raised = "ok"

\* C22: in every reachable state the stage a job is in has an entry in the
\* job's stage timings, with a start and an end that is not before the start.
C22_StageHasTiming ==
    \A j \in Ids :
        /\ jobs[j].stage \in DOMAIN jobs[j].stage_timings
        /\ jobs[j].stage_timings[jobs[j].stage].start
              <= jobs[j].stage_timings[jobs[j].stage].end

\* C23 as stated: verify(sign(payload)) under the same secret returns the
\* payload when the current time is not after exp, and fails with the expiry
\* error when the current time is after exp.
C23_ExpiresAtExp ==
    last.op = "verify" =>
        IF last.clock <= last.payload.exp * TicksPerSecond
        THEN last.result = Returned(last.payload)
        ELSE last.result = Raised("token expired")

\* C23: verify(sign(payload)) under the same secret returns the payload when
\* the current time cut to whole seconds is not after exp, and fails with the
\* expiry error when the current time cut to whole seconds is after exp.
C23_ExpiresAfterExpSecond ==
    last.op = "verify" =>
        IF last.clock \div TicksPerSecond <= last.payload.exp
        THEN last.result = Returned(last.payload)
        ELSE last.result = Raised("token expired")

\* A signed token verified within the second that begins at its expiry
\* instant, and returned.
C23_Witness ==
    /\ last.op = "verify"
    /\ last.clock > last.payload.exp * TicksPerSecond
    /\ last.result = Returned(last.payload)

\* C24: verify of a signed token with exactly one bit turned over fails with
\* an error and returns no payload, and it fails on the signature or the
\* format whatever the expiry is.
C24_MutatedTokenRejected ==
    last.op = "verify_mutated" =>
        /\ last.result.error # None
        /\ last.result.error # "token expired"
        /\ last.result.payload = NoPayload

\* C25: equal tuples (mode, quality, flags, aspect ratio, content hash of each
\* input) have equal fingerprints, and tuples that differ in a component have
\* different fingerprints.
C25_FingerprintInjective ==
    last.op = "fingerprint" => ((last.a = last.b) <=> (last.ha = last.hb))

\* Two tuples that differ in one component only, fingerprinted.
C25_Witness ==
    /\ last.op = "fingerprint"
    /\ last.a # last.b
    /\ last.a.audio_sha256 # last.b.audio_sha256
    /\ [last.a EXCEPT !.audio_sha256 = ""] = [last.b EXCEPT !.audio_sha256 = ""]
    /\ last.ha # last.hb

\* An operation suspended on job j resumes and commits a change of the row:
\* the dispatch whose submit_job raised, the sweep whose get_job_status or
\* download returned, a callback whose download returned.
ResumesFromSubmit(j) == wjob = j /\ SubmitFails
ResumesCompletion(j) ==
    \/ wjob = j /\ (\E body \in AllStatusBodies : PollStatus(body))
    \/ wjob = j /\ PollDownloaded
    \/ CallbackDownloaded(j)

\* C26: an operation that resumes from its await and commits a status of a job
\* finds the job in the status it left it in (processing), no other operation
\* having committed a status in between; the one exception is a completion
\* (callback or poll-derived) that finds the job done by the other completion.
C26_NoStaleStatusWrite ==
    [][\A j \in Ids :
          (ResumesFromSubmit(j) \/ ResumesCompletion(j)) /\ jobs'[j] # jobs[j]
              => \/ jobs[j].status = "processing"
                 \/ ResumesCompletion(j) /\ jobs[j].status = "done"]_vars

\* C27: when the worker dequeues an identifier whose job does not exist or is
\* neither queued nor retry, the dispatch step changes no job, hands out no
\* asset reference and does not call the Compute Gateway: the worker is idle
\* again and the backend has heard nothing.
C27_SkippedDispatchIsNoop ==
    [][(DispatchBegin /\ (Head(queue) \notin Ids
                          \/ jobs[Head(queue)].status \notin {"queued", "retry"}))
          => /\ jobs' = jobs
             /\ wpc' = "idle" /\ wjob' = wjob
             /\ remote' = remote
             /\ last' = NoCall]_vars

\* The worker is about to dequeue a job that is neither queued nor retry.
C27_Witness ==
    /\ wpc = "idle"
    /\ queue # <<>>
    /\ Head(queue) \in Ids
    /\ jobs[Head(queue)].status \notin {"queued", "retry"}

FailureBodies ==
    { body \in AllStatusBodies :
        \/ body.status \in {"FAILED", "CANCELLED", "TIMED_OUT", "NOT_FOUND"}
        \/ body.status = "COMPLETED" /\ body.output \in {"none", "failed"} }

\* C29: when a sweep finds such a status, the job becomes failed with an error
\* message and finished_at set, and the completion handler is not invoked: the
\* sweep neither reports a completion nor awaits a download.
C29_PollFailureFailsJob ==
    [][\A body \in FailureBodies :
          PollStatus(body)
             => /\ jobs'[wjob].status = "failed" /\ jobs'[wjob].stage = "failed"
                /\ jobs'[wjob].error_message # None
                /\ jobs'[wjob].finished_at # NoTime
                /\ jobs'[wjob].output_path = jobs[wjob].output_path
                /\ last' = NoCall /\ wpc' # "download"]_vars

\* A job failed by the sweep that found its run completed without output.
C29_Witness ==
    \E j \in Ids : /\ jobs[j].status = "failed"
                   /\ jobs[j].error_message = "runpod completed without output payload"
                   /\ jobs[j].finished_at # NoTime

\* C30: when a sweep finds the run in queue or in progress, no field of any
\* job changes and nothing is stored: the row keeps its status, stage, handle
\* and timestamps, and the sweep goes on.
C30_PendingPollIsNoop ==
    [][\A body \in StatusBodies("RUNNING") :
          (body.status \in {"IN_QUEUE", "IN_PROGRESS"} /\ PollStatus(body))
             => /\ jobs' = jobs
                /\ last' = NoCall
                /\ wpc' # "download"]_vars

\* A sweep over two runs in progress that has been answered for the first
\* one and is asking for the second.
C30_Witness ==
    /\ wpc = "get_status"
    /\ pollJobs = {}
    /\ Cardinality(Inflight) = 2
    /\ \A j \in Inflight : jobs[j].stage = "generating" /\ jobs[j].finished_at = NoTime

\* A step of the reconciliation sweep: its start, an answer of get_job_status,
\* or the end of the download it awaits.
SweepStep ==
    \/ PollBegin
    \/ \E body \in AllStatusBodies : PollStatus(body)
    \/ PollStatusRaise
    \/ PollDownloaded
    \/ PollDownloadFailed

\* C31: a sweep asks the Compute Gateway about exactly the jobs that are
\* processing with a remote handle, and no step of a sweep changes a field of a
\* job that is queued, retry, done, failed, or processing without a handle.
C31_SweepTouchesInflightOnly ==
    [][/\ PollBegin => (IF wpc' = "get_status" THEN {wjob'} ELSE {}) \cup pollJobs' = Inflight
       /\ SweepStep => \A j \in Ids : jobs'[j] # jobs[j] => j \in Inflight]_vars

\* C32: the stage timings are append-only: in every step, every stage key a
\* job's map holds is still there afterwards with the same start, whatever the
\* step is (a stage entered again, a failure, a retry, a completion).
C32_TimingsAppendOnly ==
    [][\A j \in Ids :
          \A s \in DOMAIN jobs[j].stage_timings :
              /\ s \in DOMAIN jobs'[j].stage_timings
              /\ jobs'[j].stage_timings[s].start = jobs[j].stage_timings[s].start]_vars

C34_DoneIsComplete ==
    \A j \in Ids :
        jobs[j].status = "done"
            => /\ jobs[j].output_path # NoRef
               /\ jobs[j].error_message = None
               /\ jobs[j].finished_at # NoTime

\* A job that failed, was retried and is done: the error of the first attempt
\* has been cleared.
C34_Witness ==
    \E j \in Ids : /\ jobs[j].status = "done"
                   /\ "failed" \in DOMAIN jobs[j].stage_timings
                   /\ jobs[j].output_path = OutputRef(j)
                   /\ jobs[j].error_message = None
                   /\ jobs[j].finished_at # NoTime

\* C35: whenever a job is queued or retry, its identifier is in the dispatch
\* queue or is the entry the worker is handling.
C35_QueuedJobHasEntry ==
    \A j \in Ids :
        jobs[j].status \in {"queued", "retry"}
            => \/ InQueue(j)
               \/ wjob = j /\ wpc \in {"submit", "submitted"}

\* A retried job waiting in the queue while the worker is busy with a sweep.
C35_Witness ==
    \E j \in Ids : /\ jobs[j].status = "retry"
                   /\ InQueue(j)
                   /\ wpc = "get_status"

\* C36: the dispatch queue never holds the same job identifier more than once.
C36_QueueHoldsIdOnce ==
    \A m, n \in 1..Len(queue) : queue[m] = queue[n] => m = n

\* The number of entries of the queue that name job j.
Entries(q, j) == Cardinality({ n \in 1..Len(q) : q[n] = j })

\* C37: a retry request for a job that does not exist or whose status is not
\* failed is answered with an error, changes no job and enqueues nothing; a
\* retry of a failed job adds one entry and leaves the job in retry, so a
\* second request for it is rejected.
C37_RejectedRetryChangesNothing ==
    [][\A id \in JobIds :
          (last'.op = "retry" /\ last'.job = id)
              => IF id \in Ids /\ jobs[id].status = "failed"
                 THEN /\ last'.code = 200
                      /\ jobs'[id].status = "retry"
                      /\ Entries(queue', id) = Entries(queue, id) + 1
                 ELSE /\ last'.code \in {400, 404}
                      /\ jobs' = jobs
                      /\ queue' = queue]_vars

\* A second retry of a job was rejected: the job stays in retry with the one
\* entry the first retry added.
C37_Witness ==
    \E j \in Ids : /\ last = Response("retry", j, 400, {})
                   /\ jobs[j].status = "retry"
                   /\ Entries(queue, j) = 1

\* The worker tasks that are inside the body of the loop.
Consumers == { t \in 1..Len(tasks) : tasks[t] \in LoopBody }

\* The worker tasks that have not returned.
LiveTasks == { t \in 1..Len(tasks) : tasks[t] # "ended" }

\* C38: at most one worker task is inside the loop that consumes the queue, so
\* no two of them are in a dispatch or a sweep together, and until stop() is
\* called there is at most one worker task at all.
C38_OneConsumer ==
    /\ Cardinality(Consumers) <= 1
    /\ ~provider.stopping => Cardinality(LiveTasks) <= 1

\* start() was called while the worker task was in a dispatch.
C38_Witness ==
    /\ last = [op |-> "start", created |-> FALSE]
    /\ ~provider.stopping
    /\ \E t \in 1..Len(tasks) : tasks[t] = "dispatch"

====
